---- MODULE Spec2Model ----
(***************************************************************************)
(* Carrysight quote confirmation page.                                     *)
(*                                                                         *)
(*   useQuoteConfirmation  (src/unnamed/part_000): reads the quote id and  *)
(*       the token from window.location on mount, popstate and hashchange. *)
(*   QuoteConfirmation     (src/QuoteConfirmation.tsx): loads the quote    *)
(*       with a GET, confirms it with a POST, renders one of five views.   *)
(*                                                                         *)
(* Text is a sequence of tokens: "/" "%2F" "+" " " are single characters   *)
(* (or one escape), every other token is a run of characters that holds    *)
(* none of them, so that the regular expression and the decoding of the    *)
(* source work on tokens exactly as they work on characters.               *)
(***************************************************************************)
EXTENDS Integers, Sequences, FiniteSets, TLC

\* ------------------------------------------------------------------ bounds
\* Segments of a pathname ("/a/b" has two).
MaxSegs == 4

\* Fetches that may be unsettled at one time.
MaxInFlight == 3

\* ------------------------------------------------------------ environment
\* null where the source holds an object or null (records compare with records).
null == [null |-> TRUE]

\* null where the source holds a string or null: a text no location holds.
absent == <<"(absent)">>

\* Path segments the browser may show (text between two "/").
Segs == { <<>>, <<"quote">>, <<"confirm">>, <<"t", "k">> }

\* Names of the query parameters the hook reads.
Keys == {"action", "quote", "token"}

\* Raw (still encoded) values a query parameter may have, or absent.
RawVals(k) ==
  CASE k = "action" -> { absent, <<"confirm">>, <<"a">> }
    [] k = "quote"  -> { absent, <<>>, <<"a">>, <<"a", "%2F", "b">> }
    [] k = "token"  -> { <<>>, <<"t", "k">> }

VARIABLES
  pathname,           \* window.location.pathname
  search,             \* window.location.search, as parameter name -> raw value
  quoteConfirmation,  \* the hook's state: null or [quoteId, token]
  lastEvent,          \* what ran checkQuoteUrl last: none, mount, popstate, hashchange
  hadPair             \* whether a pair was exposed when that event arrived

urlVars == <<pathname, search, quoteConfirmation, lastEvent, hadPair>>

VARIABLES
  props,         \* the component's props: [quoteId, token]
  mounted,       \* whether the effect of the first render has run
  quote,         \* useState<Quote | null>
  isLoading,     \* useState(true)
  isConfirming,  \* useState(false)
  confirmed,     \* useState(false)
  error,         \* useState<string | null>: null or [message]
  inflight,      \* fetches not settled yet: request -> how many
  confirmedOf,   \* the pair of the request whose response set confirmed last
  last           \* the step taken last: [op, out, req]

viewVars == <<props, mounted, quote, isLoading, isConfirming, confirmed, error,
              inflight, confirmedOf, last>>

vars == <<urlVars, viewVars>>

\* ------------------------------------------------- String.prototype.match
\* Length of the longest run of tokens other than "/" starting at s[i]:
\* what the greedy [^\/]+ consumes.
Run(s, i) ==
  CHOOSE n \in 0..(Len(s) + 1 - i) :
    /\ \A k \in 0..(n - 1) : s[i + k] # "/"
    /\ (i + n > Len(s) \/ s[i + n] = "/")

Literal == <<"/", "quote", "/", "confirm", "/">>

\* The regular expression matches with its first character at s[i].
MatchAt(s, i) ==
  /\ i + Len(Literal) - 1 <= Len(s)
  /\ SubSeq(s, i, i + Len(Literal) - 1) = Literal
  /\ LET g1 == i + Len(Literal)
         n1 == Run(s, g1)
     IN  /\ n1 >= 1
         /\ g1 + n1 <= Len(s)
         /\ Run(s, g1 + n1 + 1) >= 1

\* path.match(/\/quote\/confirm\/([^\/]+)\/([^\/]+)/): the leftmost match's
\* two groups, or null.
confirmMatch(s) ==
  IF \E i \in 1..Len(s) : MatchAt(s, i)
  THEN LET i  == CHOOSE j \in 1..Len(s) :
                   MatchAt(s, j) /\ \A h \in 1..(j - 1) : ~MatchAt(s, h)
           g1 == i + Len(Literal)
           n1 == Run(s, g1)
           g2 == g1 + n1 + 1
       IN  [quoteId |-> SubSeq(s, g1, g1 + n1 - 1),
            token   |-> SubSeq(s, g2, g2 + Run(s, g2) - 1)]
  ELSE null

\* -------------------------------------------------------- URLSearchParams
\* Decoding of one token of a raw value ("+" is a space, "%2F" a slash).
DecodeTok(t) ==
  CASE t = "+"   -> " "
    [] t = "%2F" -> "/"
    [] OTHER     -> t

\* Decode with the "+" and the escapes left as they are.
DecodeNothing(raw) == raw

Decode(raw) == [i \in 1..Len(raw) |-> DecodeTok(raw[i])]

\* searchParams.get(name): the decoded value, or null when there is none.
Get(q, k) == IF q[k] = absent THEN absent ELSE Decode(q[k])

\* Truthy testing for null alone.
TruthyNotNull(v) == v # absent

\* A JavaScript string in a condition: null and "" are false.
Truthy(v) == v # absent /\ v # <<>>

\* --------------------------------------------------------- checkQuoteUrl
\* checkQuoteUrl with the query parameters tried before the pathname.
checkQuoteUrlQueryFirst(path, q) ==
  LET match      == confirmMatch(path)
      action     == Get(q, "action")
      quoteParam == Get(q, "quote")
      tokenParam == Get(q, "token")
  IN  IF action = <<"confirm">> /\ Truthy(quoteParam) /\ Truthy(tokenParam)
      THEN [quoteId |-> quoteParam, token |-> tokenParam]
      ELSE match

\* The value checkQuoteUrl passes to setQuoteConfirmation.
checkQuoteUrl(path, q) ==
  LET match      == confirmMatch(path)
      action     == Get(q, "action")
      quoteParam == Get(q, "quote")
      tokenParam == Get(q, "token")
  IN  IF match # null
      THEN match
      ELSE IF action = <<"confirm">> /\ Truthy(quoteParam) /\ Truthy(tokenParam)
           THEN [quoteId |-> quoteParam, token |-> tokenParam]
           ELSE null

\* ------------------------------------------------------------- locations
RECURSIVE Join(_)
\* The pathname whose segments are segs, in order.
Join(segs) ==
  IF segs = <<>> THEN <<>>
  ELSE <<"/">> \o Head(segs) \o Join(Tail(segs))

NumSegs(s) == Cardinality({i \in 1..Len(s) : s[i] = "/"})

LastSlash(s) == CHOOSE i \in 1..Len(s) : s[i] = "/" /\ \A j \in (i + 1)..Len(s) : s[j] # "/"

AllPaths == { Join(segs) : segs \in UNION { [1..n -> Segs] : n \in 1..MaxSegs } }

AllSearches == { q \in [Keys -> UNION { RawVals(k) : k \in Keys }] :
                   \A k \in Keys : q[k] \in RawVals(k) }

\* Pathnames one step of history away: one segment more or one less.
NextPaths(s) ==
  { s \o <<"/">> \o seg : seg \in IF NumSegs(s) < MaxSegs THEN Segs ELSE {} }
    \cup (IF NumSegs(s) > 1 THEN { SubSeq(s, 1, LastSlash(s) - 1) } ELSE {})

\* Query strings one step of history away: one parameter changed.
NextSearches(q) ==
  UNION { { [q EXCEPT ![k] = v] : v \in RawVals(k) \ {q[k]} } : k \in Keys }

\* ------------------------------------------------- useQuoteConfirmation
\* useState<QuoteConfirmation | null>(null), at any location of the bounds.
InitHook ==
  /\ pathname \in AllPaths
  /\ search \in AllSearches
  /\ quoteConfirmation = null
  /\ lastEvent = "none"
  /\ hadPair = FALSE

\* The effect of the first render: checkQuoteUrl(), then the two listeners.
Mount ==
  /\ lastEvent = "none"
  /\ quoteConfirmation' = checkQuoteUrl(pathname, search)
  /\ lastEvent' = "mount"
  /\ hadPair' = (quoteConfirmation # null)
  /\ UNCHANGED <<pathname, search>>

\* Popstate with a listener that only ever sets a pair and never clears it.
PopstateNeverClears ==
  /\ lastEvent # "none"
  /\ \/ pathname' \in NextPaths(pathname) /\ search' = search
     \/ search' \in NextSearches(search) /\ pathname' = pathname
  /\ quoteConfirmation' = IF checkQuoteUrl(pathname', search') = null
                          THEN quoteConfirmation
                          ELSE checkQuoteUrl(pathname', search')
  /\ lastEvent' = "popstate"
  /\ hadPair' = (quoteConfirmation # null)

\* The browser moves through its history and fires popstate.
Popstate ==
  /\ lastEvent # "none"
  /\ \/ pathname' \in NextPaths(pathname) /\ search' = search
     \/ search' \in NextSearches(search) /\ pathname' = pathname
  /\ quoteConfirmation' = checkQuoteUrl(pathname', search')
  /\ lastEvent' = "popstate"
  /\ hadPair' = (quoteConfirmation # null)

\* Only the fragment changes; the listener runs all the same.
Hashchange ==
  /\ lastEvent # "none"
  /\ quoteConfirmation' = checkQuoteUrl(pathname, search)
  /\ lastEvent' = "hashchange"
  /\ hadPair' = (quoteConfirmation # null)
  /\ UNCHANGED <<pathname, search>>

\* ------------------------------------------------------ QuoteConfirmation
\* The quoteId/token pairs the component is rendered with.
Pairs == { [quoteId |-> <<"a">>, token |-> <<"t", "k">>],
           [quoteId |-> <<"b">>, token |-> <<"u">>] }

\* A fetch: the operation, what started it, and the quoteId/token of the
\* render whose closure built the URL.
Requests == [op : {"load"}, by : {"effect", "retry"}, pair : Pairs]
              \cup [op : {"confirm"}, by : {"accept"}, pair : Pairs]

\* The record the backend keeps for a pair, as far as the component reads it.
QuotesOf(p) == [ref : {p}, status : {"pending", "accepted"}]

\* How a fetch may settle: fetch() rejects; the status is not 2xx;
\* response.json() rejects; or the body parses, to null, to an object without
\* a quote, or to an object with the quote of the requested pair.
Outcomes(r) ==
  { [kind |-> "network", message |-> <<"Failed to fetch">>],
    [kind |-> "http", status |-> <<"500">>, text |-> <<"Internal Server Error">>],
    [kind |-> "http", status |-> <<"404">>, text |-> <<>>],
    [kind |-> "parse", message |-> <<"Unexpected token < in JSON">>],
    [kind |-> "json", data |-> null],
    [kind |-> "json", data |-> [quote |-> null]] }
    \cup { [kind |-> "json", data |-> [quote |-> q]] : q \in QuotesOf(r.pair) }

\* The component function's return: which of the five panels is rendered.
View ==
  IF isLoading THEN "loading"
  ELSE IF error # null /\ error.message # <<>> THEN "error"
  ELSE IF quote = null THEN "not-found"
  ELSE IF confirmed THEN "confirmed"
  ELSE "pending"

\* <Button onClick={loadQuoteDetails}> is rendered.
TryAgainShown == View = "error"

\* The Accept button rendered in the confirmed panel as well.
AcceptEnabledOnceConfirmed == View \in {"pending", "confirmed"} /\ ~isConfirming

\* <Button onClick={handleConfirmQuote} disabled={isConfirming}> can be clicked.
AcceptEnabled == View = "pending" /\ ~isConfirming

RECURSIVE Sum(_, _)
Sum(f, S) == IF S = {} THEN 0
             ELSE LET x == CHOOSE y \in S : TRUE IN f[x] + Sum(f, S \ {x})

NumInFlight == Sum(inflight, Requests)

Send(r) == inflight' = [inflight EXCEPT ![r] = @ + 1]

Settle(r) == inflight' = [inflight EXCEPT ![r] = @ - 1]

\* What the try block throws for outcome o, as [message], or null when it
\* runs to its end. what is the text of the thrown Error for a non-2xx status.
Thrown(o, what) ==
  CASE o.kind = "network" -> [message |-> o.message]
    [] o.kind = "http"    -> [message |-> what \o o.status \o <<" ">> \o o.text]
    [] o.kind = "parse"   -> [message |-> o.message]
    [] o.kind = "json"    ->
         IF o.data = null
         THEN [message |-> <<"Cannot read properties of null (reading 'quote')">>]
         ELSE null

\* loadQuoteDetails up to its await: the state it sets and the GET it sends.
LoadStart(by) ==
  /\ NumInFlight < MaxInFlight
  /\ isLoading' = TRUE
  /\ error' = null
  /\ Send([op |-> "load", by |-> by, pair |-> props'])
  /\ UNCHANGED <<quote, confirmed, confirmedOf, isConfirming>>

InitView ==
  /\ props \in Pairs
  /\ mounted = FALSE
  /\ quote = null
  /\ isLoading = TRUE
  /\ isConfirming = FALSE
  /\ confirmed = FALSE
  /\ error = null
  /\ inflight = [r \in Requests |-> 0]
  /\ confirmedOf = null
  /\ last = [op |-> "init", out |-> "-", req |-> null]

\* useEffect(..., [quoteId, token]) after the first render.
MountEffect ==
  /\ ~mounted
  /\ mounted' = TRUE
  /\ props' = props
  /\ LoadStart("effect")
  /\ last' = [op |-> "mount", out |-> "-", req |-> props]

\* The parent renders the component with another pair: the effect runs again.
PropsChange ==
  /\ mounted
  /\ props' \in Pairs \ {props}
  /\ LoadStart("effect")
  /\ last' = [op |-> "props", out |-> "-", req |-> props']
  /\ UNCHANGED mounted

\* A click on "Try Again".
TryAgain ==
  /\ TryAgainShown
  /\ props' = props
  /\ LoadStart("retry")
  /\ last' = [op |-> "retry", out |-> "-", req |-> props]
  /\ UNCHANGED mounted

\* A click on "Accept Quote": handleConfirmQuote up to its await.
Accept ==
  /\ AcceptEnabled
  /\ NumInFlight < MaxInFlight
  /\ isConfirming' = TRUE
  /\ error' = null
  /\ Send([op |-> "confirm", by |-> "accept", pair |-> props])
  /\ last' = [op |-> "accept", out |-> "-", req |-> props]
  /\ UNCHANGED <<props, mounted, quote, isLoading, confirmed, confirmedOf>>

\* The rest of loadQuoteDetails, once its GET has settled with outcome o.
LoadSettled(r, o) ==
  LET err == Thrown(o, <<"Failed to load quote details: ">>) IN
  /\ r.op = "load"
  /\ inflight[r] > 0
  /\ Settle(r)
  /\ IF err = null
     THEN /\ quote' = o.data.quote
          /\ confirmed' = (o.data.quote # null /\ o.data.quote.status = "accepted")
          /\ confirmedOf' = r.pair
          /\ error' = error
     ELSE /\ error' = err
          /\ UNCHANGED <<quote, confirmed, confirmedOf>>
  /\ isLoading' = FALSE
  /\ last' = [op |-> "loadSettled", out |-> o, req |-> r.pair]
  /\ UNCHANGED <<props, mounted, isConfirming>>

\* The rest of handleConfirmQuote, once its POST has settled with outcome o.
ConfirmSettled(r, o) ==
  LET err == Thrown(o, <<"Failed to confirm quote: ">>) IN
  /\ r.op = "confirm"
  /\ inflight[r] > 0
  /\ Settle(r)
  /\ IF err = null
     THEN /\ confirmed' = TRUE
          /\ confirmedOf' = r.pair
          /\ quote' = IF o.data.quote # null THEN o.data.quote ELSE quote
          /\ error' = error
     ELSE /\ error' = err
          \* setConfirmed(true) precedes the read of data.quote that throws
          /\ confirmed' = IF o.kind = "json" THEN TRUE ELSE confirmed
          /\ confirmedOf' = IF o.kind = "json" THEN r.pair ELSE confirmedOf
          /\ quote' = quote
  /\ isConfirming' = FALSE
  /\ last' = [op |-> "confirmSettled", out |-> o, req |-> r.pair]
  /\ UNCHANGED <<props, mounted, isLoading>>

\* ---------------------------------------------------------- specifications
\* The component alone, at a fixed location.
Init ==
  /\ InitView
  /\ pathname = <<"/">>
  /\ search = [k \in Keys |-> IF k = "token" THEN <<>> ELSE absent]
  /\ quoteConfirmation = null
  /\ lastEvent = "none"
  /\ hadPair = FALSE

Next ==
  \/ MountEffect /\ UNCHANGED urlVars
  \/ PropsChange /\ UNCHANGED urlVars
  \/ TryAgain /\ UNCHANGED urlVars
  \/ Accept /\ UNCHANGED urlVars
  \/ \E r \in Requests : \E o \in Outcomes(r) : LoadSettled(r, o) /\ UNCHANGED urlVars
  \/ \E r \in Requests : \E o \in Outcomes(r) : ConfirmSettled(r, o) /\ UNCHANGED urlVars

Spec == Init /\ [][Next]_vars

\* The hook alone, with the component not rendered.
InitUrl ==
  /\ InitHook
  /\ InitView
  /\ props = CHOOSE p \in Pairs : TRUE

NextUrl ==
  \/ Mount /\ UNCHANGED viewVars
  \/ Popstate /\ UNCHANGED viewVars
  \/ Hashchange /\ UNCHANGED viewVars

UrlSpec == InitUrl /\ [][NextUrl]_vars

\* ================================================================ claims
\* The pathname cut at its "/": "/quote/confirm/a" is <<quote, confirm, a>>.
RECURSIVE Segments(_)
Segments(s) ==
  IF s = <<>> THEN <<>>
  ELSE LET rest == Tail(s)
           n    == IF \E i \in 1..Len(rest) : rest[i] = "/"
                   THEN (CHOOSE i \in 1..Len(rest) :
                           rest[i] = "/" /\ \A j \in 1..(i - 1) : rest[j] # "/") - 1
                   ELSE Len(rest)
       IN  <<SubSeq(rest, 1, n)>> \o Segments(SubSeq(rest, n + 1, Len(rest)))

\* Segments i..i+3 of segs read quote, confirm, id, token.
PathFormAt(segs, i) ==
  /\ i + 3 <= Len(segs)
  /\ segs[i] = <<"quote">>
  /\ segs[i + 1] = <<"confirm">>
  /\ segs[i + 2] # <<>>
  /\ segs[i + 3] # <<>>

\* The pathname holds /quote/confirm/{id}/{token} somewhere.
PathForm ==
  LET segs == Segments(pathname) IN \E i \in 1..Len(segs) : PathFormAt(segs, i)

\* The id and token of the first place where the pathname has the path form.
PathPair ==
  LET segs == Segments(pathname)
      i    == CHOOSE j \in 1..Len(segs) :
                PathFormAt(segs, j) /\ \A h \in 1..(j - 1) : ~PathFormAt(segs, h)
  IN  [quoteId |-> segs[i + 2], token |-> segs[i + 3]]

\* What a browser shows for a raw parameter value: + and escapes undone.
Shown(raw) ==
  [i \in 1..Len(raw) |-> IF raw[i] = "+" THEN " "
                         ELSE IF raw[i] = "%2F" THEN "/" ELSE raw[i]]

\* The query string has action=confirm and non-empty quote and token.
QueryForm ==
  /\ search["action"] = <<"confirm">>
  /\ search["quote"] \notin {absent, <<>>}
  /\ search["token"] \notin {absent, <<>>}

QueryPair == [quoteId |-> Shown(search["quote"]), token |-> Shown(search["token"])]

Checked == lastEvent # "none"

\* C1: whenever checkQuoteUrl has run and the pathname holds
\* /quote/confirm/{id}/{token} with id and token non-empty and free of "/",
\* the hook exposes {quoteId: id, token: token} of the first such place,
\* whatever the query string holds.
C1_PathFirst ==
  (Checked /\ PathForm) => quoteConfirmation = PathPair

\* C1 witness: checkQuoteUrl ran at a location whose pathname has the path
\* form and whose query string has the query form for another pair.
C1_Witness ==
  /\ Checked
  /\ PathForm
  /\ QueryForm
  /\ QueryPair # PathPair
  /\ quoteConfirmation = PathPair

\* The pathname a browser shows for a text put in a URL's path: a space is
\* escaped, a "/" stays a "/".
UrlPath(text) ==
  [i \in 1..Len(text) |-> IF text[i] = " " THEN "%20" ELSE text[i]]

\* The pathname of the path form /quote/confirm/{quoteId}/{token} of a pair.
PathFormOf(pair) ==
  <<"/", "quote", "/", "confirm", "/">> \o UrlPath(pair.quoteId)
    \o <<"/">> \o UrlPath(pair.token)

NoSearch == [k \in Keys |-> absent]

\* The text has no "/" and nothing a URL path escapes.
Plain(text) == \A i \in 1..Len(text) : text[i] \notin {"/", " "}

\* C2 as stated: whenever checkQuoteUrl has run, the pathname has no path form
\* and the query string has action=confirm and non-empty quote and token, the
\* hook exposes {quoteId: quote, token: token}, and that is the pair the path
\* form /quote/confirm/{quote}/{token} gives.
C2_SameAsPathForm ==
  (Checked /\ ~PathForm /\ QueryForm) =>
    /\ quoteConfirmation = QueryPair
    /\ checkQuoteUrl(PathFormOf(QueryPair), NoSearch) = QueryPair

\* C2 amended: in that case the hook exposes the decoded quote and token
\* parameters, and that is the pair the path form gives when neither value
\* holds a "/" or a character a URL path escapes.
C2_QueryPair ==
  (Checked /\ ~PathForm /\ QueryForm) =>
    /\ quoteConfirmation = QueryPair
    /\ (Plain(QueryPair.quoteId) /\ Plain(QueryPair.token))
         => checkQuoteUrl(PathFormOf(QueryPair), NoSearch) = QueryPair

\* C2 witness: checkQuoteUrl ran at a location with the query form only, whose
\* values are plain, and exposes their pair.
C2_Witness ==
  /\ Checked
  /\ ~PathForm
  /\ QueryForm
  /\ Plain(QueryPair.quoteId) /\ Plain(QueryPair.token)
  /\ quoteConfirmation = QueryPair

\* C3: after the mount check and after every popstate or hashchange the
\* exposed pair is the extraction of the location at that moment: the pair of
\* the path form, else the pair of the query form, else null.
C3_TracksLocation ==
  Checked =>
    quoteConfirmation = IF PathForm THEN PathPair
                        ELSE IF QueryForm THEN QueryPair
                        ELSE null

\* C3 witness: a popstate arrived while a pair was exposed, landed on a
\* location of neither form, and the pair is cleared.
C3_Witness ==
  /\ lastEvent = "popstate"
  /\ hadPair
  /\ ~PathForm
  /\ ~QueryForm
  /\ quoteConfirmation = null

\* C4: the exposed value is null or a pair whose quoteId and token are both
\* non-empty strings.
C4_WellFormed ==
  \/ quoteConfirmation = null
  \/ /\ DOMAIN quoteConfirmation = {"quoteId", "token"}
     /\ quoteConfirmation.quoteId \notin {absent, <<>>}
     /\ quoteConfirmation.token \notin {absent, <<>>}

\* C4 witness: checkQuoteUrl ran at a location that has action=confirm and a
\* token but an empty quote parameter, and exposes nothing.
C4_Witness ==
  /\ Checked
  /\ ~PathForm
  /\ search["action"] = <<"confirm">>
  /\ search["quote"] = <<>>
  /\ search["token"] # <<>>
  /\ quoteConfirmation = null

\* ------------------------------------------------ claims on the component
\* The call failed: fetch rejected, the status was not 2xx, the body was no
\* JSON, or it was JSON that is no object (null).
Failed(o) ==
  \/ o.kind \in {"network", "http", "parse"}
  \/ (o.kind = "json" /\ o.data = null)

\* The quote in the body of a call that did not fail, or null for none.
QuoteIn(o) == o.data.quote

LoadBegan == last.op \in {"mount", "props", "retry"}

\* The panel C5 names for a GET that settled with outcome o.
PanelFor(o) ==
  IF Failed(o) THEN "error"
  ELSE IF QuoteIn(o) = null THEN "not-found"
  ELSE IF QuoteIn(o).status = "accepted" THEN "confirmed"
  ELSE "pending"

\* C5 as stated: the view starts in loading, every load enters loading, and
\* once its GET has settled the view is error when the GET failed (network,
\* non-2xx, unreadable JSON), not-found when the response carries no quote,
\* confirmed when the quote's status is accepted, pending otherwise.
C5_LoadOutcome ==
  /\ last.op = "init" => View = "loading"
  /\ LoadBegan => View = "loading"
  /\ last.op = "loadSettled" => View = PanelFor(last.out)

\* The POST of the last step was answered 2xx with a body that parsed to an
\* object.
ConfirmSucceeded == last.op = "confirmSettled" /\ ~Failed(last.out)

\* C6 as stated: when a confirm POST succeeds the view is in the confirmed
\* state (confirmed, not confirming, error null); the quote is the response's
\* quote if the response has one and is unchanged otherwise; and the quote
\* changes in no step but a successful load or confirm.
C6_ConfirmSuccess ==
  /\ [](ConfirmSucceeded =>
         confirmed /\ ~isConfirming /\ error = null /\ View = "confirmed")
  /\ [][(ConfirmSucceeded' /\ last' # last) =>
         quote' = IF QuoteIn(last'.out) # null THEN QuoteIn(last'.out) ELSE quote]_vars
  /\ [][quote' # quote =>
         /\ last'.op \in {"loadSettled", "confirmSettled"}
         /\ ~Failed(last'.out)]_vars

\* C7 as stated: a failed GET or POST leaves a non-null error message (for a
\* non-2xx answer the text with status and body), the view shows the error
\* panel, where Accept cannot be clicked, and from the error panel no request
\* goes out unless Try Again is clicked (or the page moves to another pair).
C7_FailureHalts ==
  /\ []((last.op \in {"loadSettled", "confirmSettled"} /\ Failed(last.out)) =>
         /\ error # null
         /\ (last.out.kind = "http" =>
               error.message =
                 (IF last.op = "loadSettled"
                  THEN <<"Failed to load quote details: ">>
                  ELSE <<"Failed to confirm quote: ">>)
                   \o last.out.status \o <<" ">> \o last.out.text)
         /\ View = "error"
         /\ ~AcceptEnabled)
  /\ [][(View = "error" /\ NumInFlight' > NumInFlight)
         => last'.op \in {"retry", "props"}]_vars

\* Fetches in flight that were started by clicks of the kind by.
StartedBy(by) == Sum(inflight, { r \in Requests : r.by = by })

\* C8 as stated: every trigger sends exactly one request, and no second Try
\* Again or Accept starts a request while the request of the previous click
\* of its kind is in flight; at most one confirm POST is in flight.
C8_OnePerAction ==
  /\ [](StartedBy("retry") <= 1 /\ StartedBy("accept") <= 1)
  /\ [][(last' # last /\ last'.op \in {"mount", "props", "retry", "accept"})
         => NumInFlight' = NumInFlight + 1]_vars

\* A confirm POST goes out in this step.
ConfirmSent ==
  \E r \in Requests : r.op = "confirm" /\ inflight'[r] > inflight[r]

\* C9: a confirm POST goes out only in the step of an Accept click, and at
\* that moment the effect has run, isLoading is false, error is null, a quote
\* is loaded and confirmed is false: the view is pending.
C9_ConfirmOnlyFromPending ==
  [][ConfirmSent =>
       /\ last'.op = "accept"
       /\ mounted
       /\ ~isLoading
       /\ error = null
       /\ quote # null
       /\ ~confirmed
       /\ View = "pending"]_vars

\* C9 witness: Accept was clicked and its POST is in flight.
C9_Witness ==
  /\ last.op = "accept"
  /\ inflight[[op |-> "confirm", by |-> "accept", pair |-> props]] = 1
  /\ isConfirming

\* C10 as stated: whenever the view shows a quote (pending or confirmed), the
\* quote and the confirmed flag come from a response to a request made for the
\* current quoteId/token pair.
C10_ShownIsCurrent ==
  View \in {"pending", "confirmed"} =>
    /\ quote.ref = props
    /\ confirmedOf = props

\* This step is the settling of a call that failed.
FailedSettle(op) ==
  last' # last /\ last'.op = op /\ Failed(last'.out)

\* C11 as stated: a failed load GET changes error and isLoading alone, and a
\* failed confirm POST changes error and isConfirming alone: quote and
\* confirmed keep their values, so confirmed is false after a failed confirm,
\* and no failed call leaves the view in the confirmed state.
C11_FailureKeepsData ==
  /\ [][FailedSettle("loadSettled") =>
         /\ quote' = quote
         /\ confirmed' = confirmed
         /\ isConfirming' = isConfirming
         /\ View' # "confirmed"]_vars
  /\ [][FailedSettle("confirmSettled") =>
         /\ quote' = quote
         /\ confirmed' = confirmed
         /\ ~confirmed'
         /\ isLoading' = isLoading
         /\ View' # "confirmed"]_vars
====
